---- MODULE Spec2Model ----
(***************************************************************************)
(* Model of src/app.py: the aggregation helpers                            *)
(* bereken_doorstroompercentage and bereken_aandeel_van_totaal, the        *)
(* filter helper apply_filter, the heuristic suggest_default and the       *)
(* column-mapping panel.                                                   *)
(*                                                                         *)
(* A pandas frame is a record [columns, rows]: columns is the sequence of  *)
(* column names, rows a sequence of records with one cell per column.  A   *)
(* cell is a tagged record (int, bool, str or the missing value NA).       *)
(* A percentage is kept as an exact reduced fraction, so binary            *)
(* floating-point rounding is outside the model.                           *)
(***************************************************************************)
EXTENDS Integers, Sequences, FiniteSets, TLC

VARIABLES
    df,             \* the frame the helpers are called on
    mapping,        \* the mapping handed to the aggregation helpers
    data,           \* the helpers' local working copy of df
    call,           \* the latest call of an aggregation helper
    result,         \* what that call returned
    kolomnaam,      \* apply_filter: the column filtered on
    selectie,       \* apply_filter: what the multiselect returned
    df_filtered,    \* apply_filter: the frame returned
    available_cols, \* df.columns.tolist() of the loaded dataset (line 206)
    suggest_label,  \* suggest_default: the label of the latest call
    suggestion,     \* suggest_default: what that call returned
    kolom_mapping,  \* st.session_state["kolom_mapping"]
    pos,            \* mapping panel: index in labels_items of the next label, 0 outside the loops
    default_col,    \* mapping panel: default_col of the latest label
    default_index,  \* mapping panel: default_index of the latest label
    gekozen,        \* mapping panel: what the selectbox of the latest label returned
    picks           \* selections so far that differ from the default shown

aggVars == <<mapping, data, call, result>>
filterVars == <<kolomnaam, selectie, df_filtered>>
suggestVars == <<suggest_label, suggestion>>
panelVars == <<kolom_mapping, pos, default_col, default_index, gekozen, picks>>

vars == <<df, aggVars, filterVars, available_cols, suggestVars, panelVars>>

(***************************************************************************)
(* Bounds of the model                                                     *)
(***************************************************************************)
MaxRows == 2
MaxWeight == 1
MaxCols == 2
MaxPicks == 1

(***************************************************************************)
(* Python / pandas values                                                  *)
(***************************************************************************)
\* Python's None as a mapping value; never the name of a column
None == "<None>"

\* the falsy values `not col` tests for: None and the empty string
Truthy(x) == x \notin {None, ""}

IntCell(n) == [t |-> "int", i |-> n, s |-> ""]
BoolCell(b) == [t |-> "bool", i |-> IF b THEN 1 ELSE 0, s |-> ""]
StrCell(str) == [t |-> "str", i |-> 0, s |-> str]
NA == [t |-> "na", i |-> 0, s |-> ""]

\* the strings int() parses, with their values
IntLiterals == [x \in {"0", "1"} |-> IF x = "1" THEN 1 ELSE 0]

Abs(n) == IF n < 0 THEN 0 - n ELSE n

RECURSIVE GCD(_, _)
GCD(a, b) == IF b = 0 THEN a ELSE GCD(b, a % b)

\* the quotient n / d of Python's true division (d # 0), exact and reduced
Frac(n, d) ==
    LET g == GCD(Abs(n), Abs(d))
        sgn == IF d < 0 THEN 0 - 1 ELSE 1
    IN [null |-> FALSE, num |-> (sgn * n) \div g, den |-> Abs(d) \div g]

\* the missing percentage (None / NaN in a result column)
Null == [null |-> TRUE, num |-> 0, den |-> 1]

NoneResult == [kind |-> "None", rows |-> <<>>]
Raised == [kind |-> "TypeError", rows |-> <<>>]
Table(rows) == [kind |-> "table", rows |-> rows]

\* no frame: the local `data` of a call that returned before df.copy()
NoFrame == [columns |-> <<>>, rows |-> <<>>]

Range(f) == {f[x] : x \in DOMAIN f}

\* df[c] as a sequence of cells
Column(frame, c) == [i \in 1..Len(frame.rows) |-> frame.rows[i][c]]

\* frame[c] = vals
SetColumn(frame, c, vals) ==
    [frame EXCEPT !.rows =
        [i \in 1..Len(frame.rows) |-> [frame.rows[i] EXCEPT ![c] = vals[i]]]]

\* Series.sum(): missing values are skipped, the empty sum is 0
RECURSIVE SeriesSum(_)
SeriesSum(cells) ==
    IF cells = <<>> THEN 0
    ELSE (IF Head(cells).t = "na" THEN 0 ELSE Head(cells).i) + SeriesSum(Tail(cells))

\* elementwise product of two columns; a missing factor gives a missing product
Product(xs, ys) ==
    [i \in DOMAIN xs |->
        IF xs[i].t = "na" \/ ys[i].t = "na" THEN NA ELSE IntCell(xs[i].i * ys[i].i)]

(***************************************************************************)
(* bereken_doorstroompercentage: normalisation of the indicator column     *)
(***************************************************************************)
\* int(cell) succeeds: astype(int) raises as soon as one cell fails
IntCoercible(cell) ==
    \/ cell.t \in {"int", "bool"}
    \/ cell.t = "str" /\ cell.s \in DOMAIN IntLiterals

IntOf(cell) == IF cell.t = "str" THEN IntLiterals[cell.s] ELSE cell.i

\* .map({True: 1, False: 0}).fillna(0).astype(int) on one cell: the dict is
\* looked up by Python equality, so 1 finds True and 0 finds False; every
\* other cell has no entry, becomes missing and is filled with 0
MapTrueFalse(cell) ==
    IF cell.t \in {"int", "bool"} /\ cell.i \in {0, 1} THEN cell.i ELSE 0

AsTypeIntRaises(cells) == \E i \in DOMAIN cells : ~IntCoercible(cells[i])

\* lines 35-39: the whole column goes through astype(int); if that raises,
\* the whole column goes through the True/False map instead
NormaliseIndicator(cells) ==
    IF AsTypeIntRaises(cells)
    THEN [i \in DOMAIN cells |-> IntCell(MapTrueFalse(cells[i]))]
    ELSE [i \in DOMAIN cells |-> IntCell(IntOf(cells[i]))]

(***************************************************************************)
(* The mapping: a Python dict from label to column name or None            *)
(***************************************************************************)
\* mapping.get(label)
MappingGet(m, label) == IF label \in DOMAIN m THEN m[label] ELSE None

\* name in df.columns
HasColumn(frame, name) == name \in Range(frame.columns)

(***************************************************************************)
(* groupby: rows with a missing key cell are dropped, groups come sorted   *)
(***************************************************************************)
\* Python's order on the strings that occur as group values
StringOrder == <<"ict", "noord", "zorg", "zuid">>

StringRank(str) == CHOOSE i \in DOMAIN StringOrder : StringOrder[i] = str

\* key tuple of a row
RowKey(row, group_cols) == [j \in DOMAIN group_cols |-> row[group_cols[j]]]

KeyHasNA(key) == \E j \in DOMAIN key : key[j].t = "na"

\* lexicographic order on key tuples of equal length
RECURSIVE KeyLess(_, _)
KeyLess(a, b) ==
    IF a = <<>> THEN FALSE
    ELSE IF Head(a) = Head(b) THEN KeyLess(Tail(a), Tail(b))
    ELSE StringRank(Head(a).s) < StringRank(Head(b).s)

RECURSIVE SortKeys(_)
SortKeys(keys) ==
    IF keys = {} THEN <<>>
    ELSE LET m == CHOOSE k \in keys : \A o \in keys \ {k} : KeyLess(k, o)
         IN <<m>> \o SortKeys(keys \ {m})

\* (groupby with sort=False: the keys in the order of their first row)
GroupKeysFirstSeen(frame, group_cols) ==
    LET keyAt(i) == RowKey(frame.rows[i], group_cols)
        keys == {k \in {keyAt(i) : i \in DOMAIN frame.rows} : ~KeyHasNA(k)}
        first(k) == CHOOSE i \in DOMAIN frame.rows :
                        keyAt(i) = k /\ \A j \in 1..(i - 1) : keyAt(j) # k
    IN [p \in 1..Cardinality(keys) |->
            CHOOSE k \in keys : Cardinality({o \in keys : first(o) < first(k)}) = p - 1]

\* groupby(group_cols) with the defaults sort=True, dropna=True: the keys
GroupKeys(frame, group_cols) ==
    SortKeys({RowKey(frame.rows[i], group_cols) : i \in DOMAIN frame.rows}
             \ {k \in {RowKey(frame.rows[i], group_cols) : i \in DOMAIN frame.rows} :
                    KeyHasNA(k)})

\* the rows of one group, in frame order
GroupRows(frame, group_cols, key) ==
    SelectSeq(frame.rows, LAMBDA row : RowKey(row, group_cols) = key)

GroupFrame(frame, group_cols, key) ==
    [frame EXCEPT !.rows = GroupRows(frame, group_cols, key)]

(***************************************************************************)
(* bereken_doorstroompercentage (lines 20-60)                              *)
(***************************************************************************)
\* lines 25-31: both required labels mapped to columns of df
DoorstroomPrecondition(frame, m) ==
    /\ Truthy(MappingGet(m, "aantal_studenten"))
    /\ Truthy(MappingGet(m, "doorstroom_indicator"))
    /\ HasColumn(frame, MappingGet(m, "aantal_studenten"))
    /\ HasColumn(frame, MappingGet(m, "doorstroom_indicator"))

\* lines 33-39: the local frame `data` (NoFrame if the call returned earlier)
DoorstroomData(frame, m) ==
    IF ~DoorstroomPrecondition(frame, m) THEN NoFrame
    ELSE LET col_ind == MappingGet(m, "doorstroom_indicator")
         IN SetColumn(frame, col_ind, NormaliseIndicator(Column(frame, col_ind)))

\* line 42 / line 77 / g[col_aantal].sum()
Totaal(frame, col_aantal) == SeriesSum(Column(frame, col_aantal))

\* line 45: (data[col_ind] * data[col_aantal]).sum()
\* (a slip that sums the indicator without the weights)
DoorstroomUnweighted(frame, col_ind, col_aantal) == SeriesSum(Column(frame, col_ind))

Doorstroom(frame, col_ind, col_aantal) ==
    SeriesSum(Product(Column(frame, col_ind), Column(frame, col_aantal)))

\* lines 41-47
Ongegroepeerd(d, col_ind, col_aantal) ==
    LET total == Totaal(d, col_aantal)
    IN IF total = 0 THEN NoneResult
       ELSE Table(<< [key |-> <<StrCell("totaal")>>,
                      pct |-> Frac(100 * Doorstroom(d, col_ind, col_aantal), total)] >>)

\* line 50
RECURSIVE GroupCols(_, _, _)
\* (a line 50 that groups only when every label names a column of df)
GroupColsAllOrNothing(frame, m, group_labels) ==
    IF \A j \in DOMAIN group_labels : HasColumn(frame, MappingGet(m, group_labels[j]))
    THEN [j \in DOMAIN group_labels |-> m[group_labels[j]]]
    ELSE <<>>

GroupCols(frame, m, group_labels) ==
    IF group_labels = <<>> THEN <<>>
    ELSE (IF HasColumn(frame, MappingGet(m, Head(group_labels)))
          THEN <<m[Head(group_labels)]>> ELSE <<>>)
         \o GroupCols(frame, m, Tail(group_labels))

\* lines 55-57: the lambda applied to one group
GroupPct(g, col_ind, col_aantal) ==
    IF Totaal(g, col_aantal) > 0
    THEN Frac(100 * Doorstroom(g, col_ind, col_aantal), Totaal(g, col_aantal))
    ELSE Null

\* lines 54-60: groupby(...).apply(...) then reset_index(name=...).  apply
\* hands back a Series of the per-group values, except that with no group at
\* all, or with None from every group, it hands back an empty DataFrame, whose
\* reset_index takes no `name` argument: the call raises TypeError.
Gegroepeerd(d, group_cols, col_ind, col_aantal) ==
    LET keys == GroupKeys(d, group_cols)
        rows == [k \in DOMAIN keys |->
                    [key |-> keys[k],
                     pct |-> GroupPct(GroupFrame(d, group_cols, keys[k]), col_ind, col_aantal)]]
    IN IF \A k \in DOMAIN rows : rows[k].pct.null THEN Raised ELSE Table(rows)

\* lines 33-60, reached with both required columns in df
DoorstroomBody(frame, m, group_labels) ==
    LET col_aantal == MappingGet(m, "aantal_studenten")
        col_ind == MappingGet(m, "doorstroom_indicator")
        d == DoorstroomData(frame, m)
    IN IF group_labels = <<>> THEN Ongegroepeerd(d, col_ind, col_aantal)
       ELSE IF GroupCols(frame, m, group_labels) = <<>> THEN NoneResult
       ELSE Gegroepeerd(d, GroupCols(frame, m, group_labels), col_ind, col_aantal)

\* (a slip that leaves out lines 30-31: data[col_ind] on a column that is not
\* in df raises KeyError)
DoorstroomResultUnchecked(frame, m, group_labels) ==
    IF ~(Truthy(MappingGet(m, "aantal_studenten"))
         /\ Truthy(MappingGet(m, "doorstroom_indicator")))
    THEN NoneResult
    ELSE IF ~DoorstroomPrecondition(frame, m) THEN [kind |-> "KeyError", rows |-> <<>>]
    ELSE DoorstroomBody(frame, m, group_labels)

DoorstroomResult(frame, m, group_labels) ==
    IF ~DoorstroomPrecondition(frame, m) THEN NoneResult
    ELSE DoorstroomBody(frame, m, group_labels)

(***************************************************************************)
(* bereken_aandeel_van_totaal (lines 63-87)                                *)
(***************************************************************************)
\* lines 68-74
AandeelPrecondition(frame, m, group_label) ==
    /\ Truthy(MappingGet(m, "aantal_studenten"))
    /\ Truthy(MappingGet(m, group_label))
    /\ HasColumn(frame, MappingGet(m, "aantal_studenten"))
    /\ HasColumn(frame, MappingGet(m, group_label))

\* line 76
AandeelData(frame, m, group_label) ==
    IF ~AandeelPrecondition(frame, m, group_label) THEN NoFrame ELSE frame

\* lines 77-87
AandeelResult(frame, m, group_label) ==
    IF ~AandeelPrecondition(frame, m, group_label) THEN NoneResult
    ELSE LET col_aantal == MappingGet(m, "aantal_studenten")
             col_group == MappingGet(m, group_label)
             total == Totaal(frame, col_aantal)
             keys == GroupKeys(frame, <<col_group>>)
         IN IF total = 0 THEN NoneResult
            ELSE Table([k \in DOMAIN keys |->
                    LET aantal == Totaal(GroupFrame(frame, <<col_group>>, keys[k]), col_aantal)
                    IN [key |-> keys[k],
                        aantal_studenten |-> aantal,
                        aandeel_percentage |-> Frac(100 * aantal, total)]])

(***************************************************************************)
(* Calls of the two operations on the caller's frame df and mapping        *)
(***************************************************************************)
NoCall == [op |-> "none", group_labels |-> <<>>]

\* the caller's frame after the call: `data` is df.copy(), a frame of its own,
\* so the assignment to data[col_ind] does not reach df (line 33, line 76)
\* (a slip that writes through to df: data = df instead of df.copy())
CallerFrameAliased(frame, written) == IF written = NoFrame THEN frame ELSE written

CallerFrame(frame, written) == frame

\* the group_labels the callers pass (lines 613, 628, 658), and both at once
GroupLabelChoices == {<<>>, <<"sector">>, <<"regio">>, <<"sector", "regio">>}

bereken_doorstroompercentage(group_labels) ==
    /\ data' = DoorstroomData(df, mapping)
    /\ result' = DoorstroomResult(df, mapping, group_labels)
    /\ call' = [op |-> "doorstroom", group_labels |-> group_labels]
    /\ df' = CallerFrame(df, data')
    /\ UNCHANGED <<mapping, filterVars, available_cols, suggestVars, panelVars>>

bereken_aandeel_van_totaal(group_label) ==
    /\ data' = AandeelData(df, mapping, group_label)
    /\ result' = AandeelResult(df, mapping, group_label)
    /\ call' = [op |-> "aandeel", group_labels |-> <<group_label>>]
    /\ df' = CallerFrame(df, data')
    /\ UNCHANGED <<mapping, filterVars, available_cols, suggestVars, panelVars>>

NextAgg ==
    \/ \E gl \in GroupLabelChoices : bereken_doorstroompercentage(gl)
    \/ \E g \in {"sector", "regio"} : bereken_aandeel_van_totaal(g)

(***************************************************************************)
(* Inputs: frames and mappings drawn from bounded sets                     *)
(***************************************************************************)
\* functionele_labels (lines 208-219), in declaration order
Labels == <<"instroomjaar", "aantal_studenten", "sector", "regio",
            "doorstroom_indicator", "brin_mbo", "brin_hbo", "niveau_mbo",
            "opleiding_mbo", "opleiding_hbo">>

\* columns of the frames drawn here
KpiColumns == <<"Sector", "Aantal", "Doorstroom">>

\* a mapping as the panel leaves it: every label has an entry
KpiMapping ==
    [l \in Range(Labels) |->
        CASE l = "aantal_studenten" -> "Aantal"
          [] l = "doorstroom_indicator" -> "Doorstroom"
          [] l = "sector" -> "Sector"
          [] OTHER -> None]

\* counts as a csv holds them, the missing value included
WeightCells == {IntCell(w) : w \in 0..MaxWeight} \cup {NA}
\* weights are not validated: a negative one passes through the sums
SignedWeightCells == {IntCell(w) : w \in (0 - 1)..MaxWeight}
SectorCells == {StrCell("ict"), StrCell("zorg"), NA}
FlagCells == {IntCell(0), IntCell(1)}
IndicatorCells ==
    {IntCell(0), IntCell(1), IntCell(2), BoolCell(TRUE), BoolCell(FALSE),
     StrCell("1"), StrCell("ja")}

Frames(columns, rowset) ==
    UNION {[columns : {columns}, rows : [1..n -> rowset]] : n \in 0..MaxRows}

\* frames with every coding of the indicator, one sector
RateFrames ==
    Frames(KpiColumns,
           {[Sector |-> StrCell("ict"), Aantal |-> w, Doorstroom |-> d] :
                w \in SignedWeightCells, d \in IndicatorCells})

\* frames with a 0/1 indicator and every sector value, the missing one included
GroupFrames ==
    Frames(KpiColumns,
           {[Sector |-> sc, Aantal |-> w, Doorstroom |-> d] :
                sc \in SectorCells, w \in WeightCells, d \in FlagCells})

\* no aggregation helper has been called
InitCall ==
    /\ data = NoFrame
    /\ call = NoCall
    /\ result = NoneResult

\* apply_filter has not been called
InitFilterIdle ==
    /\ kolomnaam = None
    /\ selectie = {}
    /\ df_filtered = NoFrame

\* suggest_default has not been called
InitSuggestIdle ==
    /\ suggest_label = None
    /\ suggestion = None

\* a new session: no kolom_mapping yet, so line 222 stores the empty dict
InitPanelIdle ==
    /\ kolom_mapping = [l \in {} |-> None]
    /\ pos = 0
    /\ default_col = None
    /\ default_index = 0
    /\ gekozen = "(geen)"
    /\ picks = 0

\* the parts of the state that the aggregation and filter helpers do not touch
InitRest ==
    /\ InitFilterIdle
    /\ available_cols = df.columns
    /\ InitSuggestIdle
    /\ InitPanelIdle

InitRate ==
    /\ df \in RateFrames
    /\ mapping = KpiMapping
    /\ InitCall
    /\ InitRest

InitGroup ==
    /\ df \in GroupFrames
    /\ mapping = KpiMapping
    /\ InitCall
    /\ InitRest

SpecRate == InitRate /\ [][NextAgg]_vars

SpecGroup == InitGroup /\ [][NextAgg]_vars

\* mappings for the precondition checks: each of three labels is mapped to its
\* column, to a column name of an earlier dataset, to None, or has no entry
MapChoices == {"col", "stale", "none", "absent"}

MakeMapping(c) ==
    [l \in {x \in Range(Labels) : x \notin DOMAIN c \/ c[x] # "absent"} |->
        IF l \notin DOMAIN c \/ c[l] = "none" THEN None
        ELSE IF c[l] = "stale" THEN "Oud" ELSE KpiMapping[l]]

MapMappings ==
    {MakeMapping(c) :
        c \in [{"aantal_studenten", "doorstroom_indicator", "sector"} -> MapChoices]}

MapCellsOf(c) ==
    IF c = "Sector" THEN {StrCell("ict")}
    ELSE IF c = "Aantal" THEN {IntCell(0), IntCell(1)}
    ELSE {IntCell(1)}

\* frames that hold all, or all but one, of the columns the mapping may name
MapFrames ==
    UNION {Frames(cols,
                  {r \in [Range(cols) -> {StrCell("ict"), IntCell(0), IntCell(1)}] :
                        \A c \in Range(cols) : r[c] \in MapCellsOf(c)}) :
           cols \in {KpiColumns, <<"Sector", "Aantal">>, <<"Sector", "Doorstroom">>,
                     <<"Aantal", "Doorstroom">>}}

InitMap ==
    /\ df \in MapFrames
    /\ mapping \in MapMappings
    /\ InitCall
    /\ InitRest

SpecMap == InitMap /\ [][NextAgg]_vars

(***************************************************************************)
(* Inputs with two grouping columns                                        *)
(***************************************************************************)
PairColumns == <<"Sector", "Regio", "Aantal", "Doorstroom">>

\* the mapping of the panel with a column for "regio" too; "instroomjaar" and
\* the other labels stay unmapped
PairMapping == [KpiMapping EXCEPT !["regio"] = "Regio"]

\* group_labels with one label, with two in either order, and with an
\* unmapped label between two mapped ones
PairLabelChoices ==
    {<<"sector">>, <<"regio">>, <<"sector", "regio">>, <<"regio", "sector">>,
     <<"regio", "instroomjaar", "sector">>}

NextPairs == \E gl \in PairLabelChoices : bereken_doorstroompercentage(gl)

\* frames with two sectors and two regions, the region possibly missing
PairFrames ==
    Frames(PairColumns,
           {[Sector |-> sc, Regio |-> rg, Aantal |-> w, Doorstroom |-> d] :
                sc \in {StrCell("ict"), StrCell("zorg")},
                rg \in {StrCell("noord"), StrCell("zuid"), NA},
                w \in {IntCell(n) : n \in 0..MaxWeight},
                d \in FlagCells})

InitPairs ==
    /\ df \in PairFrames
    /\ mapping = PairMapping
    /\ InitCall
    /\ InitRest

SpecPairs == InitPairs /\ [][NextPairs]_vars

\* mappings whose entries for "sector" and "regio" name a column of df, name
\* a column of an earlier file, are None, or are not there
DropMapping(c) ==
    [l \in {x \in Range(Labels) : x \notin DOMAIN c \/ c[x] # "absent"} |->
        IF l \notin DOMAIN c THEN PairMapping[l]
        ELSE IF c[l] = "none" THEN None
        ELSE IF c[l] = "stale" THEN "Oud" ELSE PairMapping[l]]

DropMappings == {DropMapping(c) : c \in [{"sector", "regio"} -> MapChoices]}

DropFrames ==
    Frames(PairColumns,
           {[Sector |-> sc, Regio |-> rg, Aantal |-> w, Doorstroom |-> IntCell(1)] :
                sc \in {StrCell("ict"), StrCell("zorg")},
                rg \in {StrCell("noord"), StrCell("zuid")},
                w \in {IntCell(n) : n \in 0..MaxWeight}})

InitDrop ==
    /\ df \in DropFrames
    /\ mapping \in DropMappings
    /\ InitCall
    /\ InitRest

SpecDrop == InitDrop /\ [][NextPairs]_vars

(***************************************************************************)
(* apply_filter (lines 90-108)                                             *)
(***************************************************************************)
RECURSIVE SortStrings(_)
SortStrings(strs) ==
    IF strs = {} THEN <<>>
    ELSE LET m == CHOOSE x \in strs : \A o \in strs : StringRank(x) <= StringRank(o)
         IN <<m>> \o SortStrings(strs \ {m})

\* line 97: sorted(df[kolomnaam].dropna().unique().tolist())
Unieke(frame, kol) ==
    SortStrings({frame.rows[i][kol].s :
                    i \in {j \in DOMAIN frame.rows : frame.rows[j][kol].t # "na"}})

\* line 107: df[df[kolomnaam].isin(selectie)]; a missing value is in no selection
\* (an isin that lets the rows without a value through)
IsInKeepsMissing(frame, kol, sel) ==
    [frame EXCEPT !.rows =
        SelectSeq(frame.rows, LAMBDA row : row[kol].t = "na" \/ row[kol].s \in sel)]

IsIn(frame, kol, sel) ==
    [frame EXCEPT !.rows =
        SelectSeq(frame.rows, LAMBDA row : row[kol].t # "na" /\ row[kol].s \in sel)]

\* (the port that filters on an empty selection too)
FilterResultAlwaysIsIn(frame, kol, sel) ==
    IF ~HasColumn(frame, kol) THEN frame ELSE IsIn(frame, kol, sel)

\* lines 94-95 and 106-108: the frame returned for the selection sel
FilterResult(frame, kol, sel) ==
    IF ~HasColumn(frame, kol) THEN frame
    ELSE IF sel # {} THEN IsIn(frame, kol, sel)
    ELSE frame

\* what st.multiselect can return: any part of the options; the widget is not
\* drawn when the column is not in df
Selections(frame, kol) ==
    IF ~HasColumn(frame, kol) THEN {{}} ELSE SUBSET Range(Unieke(frame, kol))

apply_filter(kol) ==
    \E sel \in Selections(df, kol) :
        /\ kolomnaam' = kol
        /\ selectie' = sel
        /\ df_filtered' = FilterResult(df, kol, sel)
        /\ UNCHANGED <<df, aggVars, available_cols, suggestVars, panelVars>>

\* the columns the callers filter on (lines 302-608); "Regio" is not in the
\* frames drawn here
FilterColumns == {"Sector", "Regio"}

FilterFrames ==
    Frames(<<"Sector", "Aantal">>,
           {[Sector |-> sc, Aantal |-> w] :
                sc \in {StrCell("ict"), StrCell("zorg"), StrCell("zuid"), NA},
                w \in {IntCell(0), IntCell(1)}})

InitFilter ==
    /\ df \in FilterFrames
    /\ mapping = KpiMapping
    /\ InitCall
    /\ InitRest

NextFilter == \E kol \in FilterColumns : apply_filter(kol)

SpecFilter == InitFilter /\ [][NextFilter]_vars

(***************************************************************************)
(* suggest_default (lines 111-126)                                         *)
(***************************************************************************)
\* the characters of the strings that occur as labels, tokens and column names
Spelling ==
    ("instroomjaar" :> <<"i", "n", "s", "t", "r", "o", "o", "m", "j", "a", "a", "r">>)
    @@ ("aantal_studenten" :> <<"a", "a", "n", "t", "a", "l", "_", "s", "t", "u", "d", "e", "n", "t", "e", "n">>)
    @@ ("sector" :> <<"s", "e", "c", "t", "o", "r">>)
    @@ ("regio" :> <<"r", "e", "g", "i", "o">>)
    @@ ("doorstroom_indicator" :> <<"d", "o", "o", "r", "s", "t", "r", "o", "o", "m", "_", "i", "n", "d", "i", "c", "a", "t", "o", "r">>)
    @@ ("brin_mbo" :> <<"b", "r", "i", "n", "_", "m", "b", "o">>)
    @@ ("brin_hbo" :> <<"b", "r", "i", "n", "_", "h", "b", "o">>)
    @@ ("niveau_mbo" :> <<"n", "i", "v", "e", "a", "u", "_", "m", "b", "o">>)
    @@ ("opleiding_mbo" :> <<"o", "p", "l", "e", "i", "d", "i", "n", "g", "_", "m", "b", "o">>)
    @@ ("opleiding_hbo" :> <<"o", "p", "l", "e", "i", "d", "i", "n", "g", "_", "h", "b", "o">>)
    @@ ("arbeidsmarktregio" :> <<"a", "r", "b", "e", "i", "d", "s", "m", "a", "r", "k", "t", "r", "e", "g", "i", "o">>)
    @@ ("aantal" :> <<"a", "a", "n", "t", "a", "l">>)
    @@ ("stud" :> <<"s", "t", "u", "d">>)
    @@ ("count" :> <<"c", "o", "u", "n", "t">>)
    @@ ("Sector" :> <<"S", "e", "c", "t", "o", "r">>)
    @@ ("Regio" :> <<"R", "e", "g", "i", "o">>)
    @@ ("Arbeidsmarktregio" :> <<"A", "r", "b", "e", "i", "d", "s", "m", "a", "r", "k", "t", "r", "e", "g", "i", "o">>)
    @@ ("Aantal" :> <<"A", "a", "n", "t", "a", "l">>)
    @@ ("Studenten" :> <<"S", "t", "u", "d", "e", "n", "t", "e", "n">>)
    @@ ("COUNT" :> <<"C", "O", "U", "N", "T">>)
    @@ ("Jaar" :> <<"J", "a", "a", "r">>)
    @@ ("Doorstroom_indicator" :> <<"D", "o", "o", "r", "s", "t", "r", "o", "o", "m", "_", "i", "n", "d", "i", "c", "a", "t", "o", "r">>)

UpperLetters == <<"A", "B", "C", "D", "E", "F", "G", "H", "I", "J", "K", "L", "M",
                  "N", "O", "P", "Q", "R", "S", "T", "U", "V", "W", "X", "Y", "Z">>
LowerLetters == <<"a", "b", "c", "d", "e", "f", "g", "h", "i", "j", "k", "l", "m",
                  "n", "o", "p", "q", "r", "s", "t", "u", "v", "w", "x", "y", "z">>

LowerChar(ch) ==
    IF \E k \in DOMAIN UpperLetters : UpperLetters[k] = ch
    THEN LowerLetters[CHOOSE k \in DOMAIN UpperLetters : UpperLetters[k] = ch]
    ELSE ch

\* str.lower(), on the characters of the string
Lower(chars) == [k \in DOMAIN chars |-> LowerChar(chars[k])]

\* needle in hay
Contains(hay, needle) ==
    \E k \in 0..(Len(hay) - Len(needle)) : SubSeq(hay, k + 1, k + Len(needle)) = needle

\* (a slip that compares with the column name as spelled: label_lower in c)
ColumnLowerAsSpelled(c) == Spelling[c]

\* line 117: c_lower
ColumnLower(c) == Lower(Spelling[c])

RECURSIVE suggest_default(_, _)
suggest_default(label, cols) ==
    IF cols = <<>> THEN None
    ELSE LET c == Head(cols)
             label_lower == Lower(Spelling[label])
             c_lower == ColumnLower(c)
         IN IF Contains(c_lower, label_lower) THEN c
            ELSE IF label = "regio"
                    /\ (Contains(c_lower, Spelling["regio"])
                        \/ Contains(c_lower, Spelling["arbeidsmarktregio"])) THEN c
            ELSE IF label = "aantal_studenten"
                    /\ (Contains(c_lower, Spelling["aantal"])
                        \/ Contains(c_lower, Spelling["stud"])
                        \/ Contains(c_lower, Spelling["count"])) THEN c
            ELSE suggest_default(label, Tail(cols))

\* column names of the uploads drawn here
NamePool == {"Sector", "Regio", "Arbeidsmarktregio", "Aantal", "Studenten", "COUNT",
             "aantal_studenten", "Jaar", "Doorstroom_indicator"}

\* lists of distinct column names
ColumnLists ==
    {cs \in UNION {[1..n -> NamePool] : n \in 0..MaxCols} :
        \A a, b \in DOMAIN cs : a # b => cs[a] # cs[b]}

\* the labels suggest_default is called with (lines 234, 251), and one that is
\* spelled with a capital
SuggestLabels == Range(Labels) \cup {"Sector"}

CallSuggest(label) ==
    /\ suggest_label' = label
    /\ suggestion' = suggest_default(label, available_cols)
    /\ UNCHANGED <<df, aggVars, filterVars, available_cols, panelVars>>

InitSuggest ==
    /\ available_cols \in ColumnLists
    /\ df = [columns |-> available_cols, rows |-> <<>>]
    /\ mapping = KpiMapping
    /\ InitCall
    /\ InitFilterIdle
    /\ InitSuggestIdle
    /\ InitPanelIdle

NextSuggest == \E label \in SuggestLabels : CallSuggest(label)

SpecSuggest == InitSuggest /\ [][NextSuggest]_vars

(***************************************************************************)
(* The mapping panel (lines 206-265)                                       *)
(***************************************************************************)
\* line 229
Mid == Len(Labels) \div 2

\* kolom_mapping.get(label, default)
MappingGetOr(m, label, default) == IF label \in DOMAIN m THEN m[label] ELSE default

\* lines 234 / 251: default_col
DefaultCol(m, label, cols) == MappingGetOr(m, label, suggest_default(label, cols))

\* list.index: the position of the first occurrence
IndexOf(seq, x) == CHOOSE k \in DOMAIN seq : seq[k] = x /\ \A j \in 1..(k - 1) : seq[j] # x

\* lines 235-239 / 252-256: the index into ["(geen)"] + available_cols, whose
\* entry 0 is "(geen)" and whose entry k is available_cols[k]
DefaultIndex(col, cols) == IF col \in Range(cols) THEN IndexOf(cols, col) ELSE 0

\* ["(geen)"] + available_cols, entry k (counted from 0)
Option(cols, k) == IF k = 0 THEN "(geen)" ELSE cols[k]

\* kolom_mapping[label] = value
\* (a panel that writes an entry only when a column was selected)
MappingSetUnlessNone(m, label, value) ==
    IF value = None /\ label \in DOMAIN m THEN m
    ELSE [l \in DOMAIN m \cup {label} |-> IF l = label THEN value ELSE m[l]]

MappingSet(m, label, value) ==
    [l \in DOMAIN m \cup {label} |-> IF l = label THEN value ELSE m[l]]

\* one turn of either loop: lines 233-246 / 250-263.  The selectbox returns the
\* option at default_index, or another option that the user selected; the
\* number of such selections in a session is bounded by MaxPicks.
MappingStep(label) ==
    /\ default_col' = DefaultCol(kolom_mapping, label, available_cols)
    /\ default_index' = DefaultIndex(default_col', available_cols)
    /\ \E choice \in {"(geen)"} \cup Range(available_cols) :
        /\ choice # Option(available_cols, default_index') => picks < MaxPicks
        /\ gekozen' = choice
        /\ picks' = IF choice # Option(available_cols, default_index') THEN picks + 1 ELSE picks
        /\ kolom_mapping' =
                MappingSet(kolom_mapping, label, IF choice = "(geen)" THEN None ELSE choice)
    /\ pos' = IF pos = Len(Labels) THEN 0 ELSE pos + 1
    /\ UNCHANGED <<df, aggVars, filterVars, available_cols, suggestVars>>

\* lines 231-246: the loop over labels_items[:mid]
MappingStepLeft ==
    /\ pos \in 1..Mid
    /\ MappingStep(Labels[pos])

\* lines 248-263: the loop over labels_items[mid:]
MappingStepRight ==
    /\ pos \in (Mid + 1)..Len(Labels)
    /\ MappingStep(Labels[pos])

\* the uploads of a session, as their column lists
Uploads == {<<"Jaar">>, <<"Sector", "Aantal">>, <<"Regio", "Studenten">>}

\* a run of the script on the uploaded file, up to the loops of the panel
\* (lines 132-229): it happens on an upload and on every later interaction
Rerun(cols) ==
    /\ pos = 0
    /\ available_cols' = cols
    /\ df' = [columns |-> cols, rows |-> <<>>]
    /\ pos' = 1
    /\ UNCHANGED <<aggVars, filterVars, suggestVars,
                   kolom_mapping, default_col, default_index, gekozen, picks>>

InitPanel ==
    /\ df = NoFrame
    /\ available_cols = <<>>
    /\ mapping = KpiMapping
    /\ InitCall
    /\ InitFilterIdle
    /\ InitSuggestIdle
    /\ InitPanelIdle

NextPanel ==
    \/ \E cols \in Uploads : Rerun(cols)
    \/ MappingStepLeft
    \/ MappingStepRight

SpecPanel == InitPanel /\ [][NextPanel]_vars

(***************************************************************************)
(* Properties of the aggregation operations                                *)
(***************************************************************************)
ColAantal == MappingGet(mapping, "aantal_studenten")
ColInd == MappingGet(mapping, "doorstroom_indicator")

\* the label names a column of df
Resolved(label) ==
    /\ label \in DOMAIN mapping
    /\ mapping[label] # None
    /\ mapping[label] \in Range(df.columns)

UngroupedCall == call.op = "doorstroom" /\ call.group_labels = <<>>
GroupedCall == call.op = "doorstroom" /\ call.group_labels # <<>>

PctInRange(p) == ~p.null /\ 0 <= p.num /\ p.num <= 100 * p.den

OneTotaalRowInRange ==
    /\ result.kind = "table"
    /\ Len(result.rows) = 1
    /\ result.rows[1].key = <<StrCell("totaal")>>
    /\ PctInRange(result.rows[1].pct)

\* C1 as stated: with both columns mapped to columns of df and a weight sum
\* above 0, the ungrouped call returns the single row 'totaal' with a
\* percentage in [0, 100].
C1_Original ==
    (/\ UngroupedCall
     /\ Resolved("aantal_studenten") /\ Resolved("doorstroom_indicator")
     /\ Totaal(df, ColAantal) > 0)
    => OneTotaalRowInRange

\* C1 amended: the same, for frames whose weights are all non-negative (or
\* missing) and whose indicator values are all 0 or 1 after the function's
\* normalisation.
C1_Amended ==
    (/\ UngroupedCall
     /\ Resolved("aantal_studenten") /\ Resolved("doorstroom_indicator")
     /\ Totaal(df, ColAantal) > 0
     /\ \A i \in DOMAIN df.rows :
            df.rows[i][ColAantal].t = "na" \/ df.rows[i][ColAantal].i >= 0
     /\ \A i \in DOMAIN data.rows : data.rows[i][ColInd].i \in {0, 1})
    => OneTotaalRowInRange

\* an ungrouped call on non-negative weights that returned 50 percent
C1_Witness ==
    /\ UngroupedCall
    /\ Totaal(df, ColAantal) > 0
    /\ \A i \in DOMAIN df.rows : df.rows[i][ColAantal].i >= 0
    /\ result = Table(<< [key |-> <<StrCell("totaal")>>, pct |-> Frac(50, 1)] >>)

FracAdd(a, b) == Frac(a.num * b.den + b.num * a.den, a.den * b.den)

RECURSIVE SumShares(_)
SumShares(rows) ==
    IF rows = <<>> THEN Frac(0, 1)
    ELSE FracAdd(Head(rows).aandeel_percentage, SumShares(Tail(rows)))

\* C2 as stated: whenever bereken_aandeel_van_totaal returns a table, the
\* 'aandeel_percentage' values of its rows sum to 100.
C2_SharesSumTo100 ==
    (call.op = "aandeel" /\ result.kind = "table")
    => SumShares(result.rows) = Frac(100, 1)

RECURSIVE SumGroupWeights(_, _)
SumGroupWeights(rows, group_cols) ==
    IF rows = <<>> THEN 0
    ELSE Totaal(GroupFrame(df, group_cols, Head(rows).key), ColAantal)
         + SumGroupWeights(Tail(rows), group_cols)

\* C3 as stated: the groups of a grouped result partition the rows of the
\* dataset, so the group weight sums add up to the weight sum of the dataset.
C3_PartitionComplete ==
    (GroupedCall /\ result.kind = "table")
    => LET gc == GroupCols(df, mapping, call.group_labels)
       IN /\ \A i \in DOMAIN df.rows :
                Cardinality({k \in DOMAIN result.rows :
                                result.rows[k].key = RowKey(df.rows[i], gc)}) = 1
          /\ SumGroupWeights(result.rows, gc) = Totaal(df, ColAantal)

\* C4: a call returns None whenever a label it requires has no entry, is
\* mapped to None, or is mapped to a name that is not a column of df.
C4_UnresolvedGivesNone ==
    /\ (call.op = "doorstroom"
        /\ ~(Resolved("aantal_studenten") /\ Resolved("doorstroom_indicator")))
       => result = NoneResult
    /\ (call.op = "aandeel"
        /\ ~(Resolved("aantal_studenten") /\ Resolved(call.group_labels[1])))
       => result = NoneResult

\* a doorstroom call whose indicator label names a column that df lacks
C4_Witness ==
    /\ call.op = "doorstroom"
    /\ Resolved("aantal_studenten")
    /\ "doorstroom_indicator" \in DOMAIN mapping
    /\ mapping["doorstroom_indicator"] \notin Range(df.columns) \cup {None}
    /\ result = NoneResult

\* C5 as stated: with a weight column that sums to 0, every call of either
\* operation, grouped or not, returns None.
C5_ZeroTotalGivesNone ==
    (call # NoCall /\ Resolved("aantal_studenten") /\ Totaal(df, ColAantal) = 0)
    => result = NoneResult

\* the value of one indicator cell, decided by that cell alone
CellNorm(cell) == IF IntCoercible(cell) THEN IntOf(cell) ELSE 0

\* C6 as stated: every indicator cell is normalised by itself: a cell that
\* coerces to a number counts as that number (True and 1 as 1, False and 0 as
\* 0) and only a cell that fails the coercion counts as 0.
C6_CellwiseNormalisation ==
    (call.op = "doorstroom" /\ data # NoFrame)
    => \A i \in DOMAIN df.rows : data.rows[i][ColInd].i = CellNorm(df.rows[i][ColInd])

C7_EmptySelectionIsNoOp ==
    (kolomnaam # None /\ (selectie = {} \/ kolomnaam \notin Range(df.columns)))
    => df_filtered = df

\* an empty selection on a column with two distinct values returned both rows
C7_Witness ==
    /\ kolomnaam = "Sector"
    /\ selectie = {}
    /\ Len(Unieke(df, "Sector")) >= 2
    /\ Len(df_filtered.rows) >= 2

(***************************************************************************)
(* Properties of suggest_default                                           *)
(***************************************************************************)
\* the column qualifies for the label
Qualifies(label, c) ==
    LET name == Lower(Spelling[c])
    IN \/ Contains(name, Lower(Spelling[label]))
       \/ label = "regio"
          /\ (Contains(name, Spelling["regio"]) \/ Contains(name, Spelling["arbeidsmarktregio"]))
       \/ label = "aantal_studenten"
          /\ (Contains(name, Spelling["aantal"]) \/ Contains(name, Spelling["stud"])
              \/ Contains(name, Spelling["count"]))

\* C8: suggest_default returns the first column, in column order, that
\* qualifies for the label, and None exactly when no column qualifies; a
\* column it returns is one of cols.
C8_FirstQualifyingColumn ==
    suggest_label # None =>
        /\ (suggestion = None) <=>
                (\A k \in DOMAIN available_cols : ~Qualifies(suggest_label, available_cols[k]))
        /\ suggestion # None =>
                \E k \in DOMAIN available_cols :
                    /\ available_cols[k] = suggestion
                    /\ Qualifies(suggest_label, suggestion)
                    /\ \A j \in 1..(k - 1) : ~Qualifies(suggest_label, available_cols[j])

\* the second of two columns was returned because the first does not qualify,
\* and it qualifies only once it is lowercased
C8_Witness ==
    /\ suggest_label = "aantal_studenten"
    /\ available_cols = <<"Sector", "COUNT">>
    /\ suggestion = "COUNT"

(***************************************************************************)
(* Properties of the mapping panel                                         *)
(***************************************************************************)
\* the column the panel shows as default for the latest label (None: "(geen)")
ResolvedDefault == IF default_index = 0 THEN None ELSE available_cols[default_index]

\* C9 as stated: the default of a label is the stored entry if that names a
\* column of the current dataset; in every other case (no entry, None, or a
\* name that is not a column) it is the suggestion of suggest_default, and the
\* label is unset only if that is None too.
C9_OverrideElseSuggestion ==
    [][(pos # 0 /\ pos' # pos) =>
        LET label == Labels[pos]
            stored == MappingGet(kolom_mapping, label)
        IN ResolvedDefault' =
                IF stored \in Range(available_cols) THEN stored
                ELSE suggest_default(label, available_cols)]_vars

(***************************************************************************)
(* Properties of the grouped bereken_doorstroompercentage                  *)
(***************************************************************************)
\* the key tuples of the rows of df that have a value in every group column
ValueCombinations(gc) ==
    {k \in {RowKey(df.rows[i], gc) : i \in DOMAIN df.rows} : ~KeyHasNA(k)}

\* the indices of the rows of df with the key tuple key
RowsWithKey(gc, key) == {i \in DOMAIN df.rows : RowKey(df.rows[i], gc) = key}

RECURSIVE SumOver(_, _)
SumOver(S, f) ==
    IF S = {} THEN 0
    ELSE LET x == CHOOSE y \in S : TRUE IN f[x] + SumOver(S \ {x}, f)

\* the weight of row i, and its weight if its normalised indicator is set
WeightAt == [i \in DOMAIN df.rows |->
                IF df.rows[i][ColAantal].t = "na" THEN 0 ELSE df.rows[i][ColAantal].i]
FlowAt == [i \in DOMAIN df.rows |-> data.rows[i][ColInd].i * WeightAt[i]]

\* C11 as stated: a grouped call returns one row per distinct combination of
\* group-column values; the row of a group holds 100 * sum(indicator * weight)
\* / sum(weight) over the rows of the group, and the row of a group whose
\* weight sums to zero is there too, with a null percentage.
C11_OneRowPerGroup ==
    (/\ GroupedCall
     /\ Resolved("aantal_studenten") /\ Resolved("doorstroom_indicator")
     /\ GroupCols(df, mapping, call.group_labels) # <<>>)
    => LET gc == GroupCols(df, mapping, call.group_labels)
       IN /\ result.kind = "table"
          /\ {result.rows[k].key : k \in DOMAIN result.rows} = ValueCombinations(gc)
          /\ Len(result.rows) = Cardinality(ValueCombinations(gc))
          /\ \A k \in DOMAIN result.rows :
                LET g == RowsWithKey(gc, result.rows[k].key)
                IN result.rows[k].pct =
                        IF SumOver(g, WeightAt) = 0 THEN Null
                        ELSE Frac(100 * SumOver(g, FlowAt), SumOver(g, WeightAt))

(***************************************************************************)
(* Properties of apply_filter: the rows it keeps                           *)
(***************************************************************************)
\* the rows at the indices in S, in their order in rows
RECURSIVE RowsAt(_, _, _)
RowsAt(rows, S, i) ==
    IF i > Len(rows) THEN <<>>
    ELSE (IF i \in S THEN <<rows[i]>> ELSE <<>>) \o RowsAt(rows, S, i + 1)

\* the indices of the rows of df whose value in the filter column is selected
SelectedRows ==
    {i \in DOMAIN df.rows :
        /\ df.rows[i][kolomnaam].t # "na"
        /\ df.rows[i][kolomnaam].s \in selectie}

\* C15: apply_filter returns rows of df in their original order; with a
\* selection that is not empty a row is kept exactly when its value in the
\* filter column is selected, so a row without a value is never kept.
C15_KeepsSelectedRowsInOrder ==
    kolomnaam # None
    => /\ df_filtered.columns = df.columns
       /\ \E S \in SUBSET DOMAIN df.rows : df_filtered.rows = RowsAt(df.rows, S, 1)
       /\ (selectie # {} /\ kolomnaam \in Range(df.columns))
          => /\ df_filtered.rows = RowsAt(df.rows, SelectedRows, 1)
             /\ \A k \in DOMAIN df_filtered.rows : df_filtered.rows[k][kolomnaam].t # "na"

\* the default selection, every value of the column, dropped the row without
\* a value and kept the other one
C15_Witness ==
    /\ kolomnaam = "Sector"
    /\ selectie # {}
    /\ selectie = Range(Unieke(df, "Sector"))
    /\ \E i \in DOMAIN df.rows : df.rows[i]["Sector"].t = "na"
    /\ Len(df_filtered.rows) = 1
    /\ Len(df.rows) = 2

(***************************************************************************)
(* Properties of the mapping panel: the stored mapping after a pass        *)
(***************************************************************************)
\* both loops of the panel have run over the columns of an uploaded file
PanelDone == pos = 0 /\ available_cols # <<>>

\* C14: once the panel has run for the uploaded dataset, whatever was
\* uploaded and selected before, the mapping of the session has an entry for
\* each of the ten labels and every entry is None or a column of that dataset.
C14_MappingOfCurrentDataset ==
    PanelDone
    => /\ DOMAIN kolom_mapping = Range(Labels)
       /\ Len(Labels) = 10
       /\ \A label \in Range(Labels) :
            kolom_mapping[label] \in {None} \cup Range(available_cols)

\* the pass ended on a label whose stored entry named a column of an earlier
\* upload, and the entry is None now
C14_Witness ==
    /\ PanelDone
    /\ default_col # None
    /\ default_col \notin Range(available_cols)
    /\ kolom_mapping[Labels[Len(Labels)]] = None

(***************************************************************************)
(* Properties of the grouped result: order of the rows, order of the input *)
(***************************************************************************)
\* tuple a comes before tuple b: at the first position where they differ, a
\* holds the smaller string
TupleBefore(a, b) ==
    \E j \in DOMAIN a :
        /\ \A i \in 1..(j - 1) : a[i] = b[i]
        /\ StringRank(a[j].s) < StringRank(b[j].s)

\* df with its rows in the order p
Permuted(p) == [df EXCEPT !.rows = [i \in DOMAIN df.rows |-> df.rows[p[i]]]]

\* C12: the rows of a grouped result are in ascending order of their key
\* tuples, and the result (its keys, their order, the percentages) is the same
\* for every order of the rows of the dataset.
C12_SortedAndOrderFree ==
    GroupedCall
    => /\ result.kind = "table"
          => \A j, k \in DOMAIN result.rows :
                j < k => TupleBefore(result.rows[j].key, result.rows[k].key)
       /\ \A p \in Permutations(DOMAIN df.rows) :
            DoorstroomResult(Permuted(p), mapping, call.group_labels) = result

\* two rows of one sector, the later region first, grouped on both columns:
\* the result has the two keys in ascending order
C12_Witness ==
    /\ call.op = "doorstroom"
    /\ call.group_labels = <<"sector", "regio">>
    /\ Len(df.rows) = 2
    /\ df.rows[1]["Sector"] = df.rows[2]["Sector"]
    /\ df.rows[1]["Regio"] = StrCell("zuid")
    /\ df.rows[2]["Regio"] = StrCell("noord")
    /\ result.kind = "table"
    /\ Len(result.rows) = 2
    /\ result.rows[1].key[2] = StrCell("noord")
    /\ result.rows[1].pct # result.rows[2].pct

(***************************************************************************)
(* Properties of the grouped call: the labels that are grouped on          *)
(***************************************************************************)
\* the group labels of the call that name a column of df, in the given order
Remaining == SelectSeq(call.group_labels, Resolved)

RemainingCols == [j \in DOMAIN Remaining |-> mapping[Remaining[j]]]

\* C13: a group label without a mapped column, or with a mapped column that
\* df lacks, is left out of the grouping key and the call groups on the
\* columns of the other labels, in the order given; the call returns None
\* exactly when no label is left.  (The result is a table as soon as one group
\* over those columns has a positive weight.)
C13_UnresolvedLabelsDropped ==
    (GroupedCall /\ Resolved("aantal_studenten") /\ Resolved("doorstroom_indicator"))
    => /\ result = NoneResult <=> Remaining = <<>>
       /\ Remaining # <<>>
          => (result.kind = "table"
              <=> \E key \in ValueCombinations(RemainingCols) :
                    SumOver(RowsWithKey(RemainingCols, key), WeightAt) > 0)
       /\ result.kind = "table"
          => /\ {result.rows[k].key : k \in DOMAIN result.rows}
                    = ValueCombinations(RemainingCols)
             /\ Len(result.rows) = Cardinality(ValueCombinations(RemainingCols))

\* the unmapped label between two mapped ones was left out: the keys are
\* (region, sector) pairs
C13_Witness ==
    /\ call.op = "doorstroom"
    /\ call.group_labels = <<"regio", "instroomjaar", "sector">>
    /\ Remaining = <<"regio", "sector">>
    /\ result.kind = "table"
    /\ Len(result.rows) = 2
    /\ Len(result.rows[1].key) = 2
    /\ result.rows[1].key[1].s \in {"noord", "zuid"}
    /\ result.rows[1].key[2].s \in {"ict", "zorg"}

====
